---- MODULE Spec2Model ----
(***************************************************************************)
(* The realtime session controller of the NIA client (App component):      *)
(* startSession / stopSession / handleSessionError and the transport       *)
(* callbacks onopen, onmessage, onerror, onclose, together with the state  *)
(* they share through React state and refs.                                *)
(*                                                                         *)
(* Every startSession invocation that passes its guard is given an id      *)
(* 1, 2, ...; the media stream, the gain nodes, the transport and the      *)
(* video timer it creates carry the same id, and a ref holds the id of the *)
(* object it points to (0 is null). An object that is gone (a closed       *)
(* transport, a stopped stream or source, a cleared timer) is "none".      *)
(*                                                                         *)
(* Spec and SpecFault are the controller; SpecMemory adds the memory list  *)
(* and the tool calls, SpecPlayback and SpecLive the playback scheduler    *)
(* (cursor, output clock, decodes in flight), SpecCapture the microphone   *)
(* and video callbacks set up by onopen.                                   *)
(***************************************************************************)
EXTENDS Integers, FiniteSets, Sequences

MaxSessions == 2     \* startSession invocations that pass the guard
MaxRestarts == 3     \* ... in the specification of the video timers
MaxSources  == 2     \* audio buffer sources decoding or playing at a time
MaxPrompts  == 1     \* openSelectKey prompts awaited at the same time
MaxTime     == 3     \* largest value of an output clock and of the cursor
MaxDur      == 1     \* longest audio chunk
MaxCalls    == 2     \* function calls in one tool-call event
MaxOps      == 2     \* memory operations in one run of SpecMemory
MaxText     == 2     \* characters of NIA transcript received in a turn
SubSteps    == 4     \* sample values told apart inside one step of 1/32768

\* "[fact, ...prev].slice(0, 50)"
MemoryCap   == 50

Sessions  == 1..(IF MaxRestarts > MaxSessions THEN MaxRestarts ELSE MaxSessions)
SourceIds == 1..MaxSources

\* The substrings handleSessionError looks for in an error message; a
\* message is modelled by the set of those it contains.
NotFoundMarker == "Requested entity was not found"
QuotaMarker    == "quota"
Marker429      == "429"
Markers        == {NotFoundMarker, QuotaMarker, Marker429}
ErrorMessages  == SUBSET Markers
\* getUserMedia rejects with a DOMException ("Permission denied", "Requested
\* device not found", ...): none of the markers.
DeviceErrorMessage == {}

\* The three texts handleSessionError can display.
ConfigErrorText    == "Configuration error... let's check your API key?"
QuotaText          == "My circuits are a bit busy right now (Quota Exceeded)."
ConnectionLostText == "I lost our connection... let's try waking me up again?"
NoError            == "null"

VARIABLES
  isConnected, isConnecting, errorMessage,      \* React state
  sessionRef, streamRef, frameIntervalRef,      \* refs (0 = null)
  outputGainNodeRef, inputGainNodeRef,
  sourcesRef,                                   \* set of source ids
  pc,          \* position of each startSession invocation
  transport,   \* each invocation's transport: none, opening, open, closing
  stream,      \* each invocation's media stream: none, live
  timer,       \* the video timer set by each onopen: none, active
  sources,     \* each audio buffer source: none, playing
  decoding,    \* the message whose audio each onmessage is decoding
  prompts,     \* handleSessionError calls awaiting openSelectKey, per caller
  nextId,      \* id of the next startSession invocation
  memories,          \* React state: the memory list, most recent first
  fontFamily,        \* React state: the font choice
  capture,     \* the capture callbacks set up by each onopen: none, or the
               \* position of its video frame: idle, blob, read
  transcription,      \* React state: the displayed transcripts {user, nia}
  startMemories,      \* the memory list each startSession invocation closed over
  systemInstruction,  \* config.systemInstruction of each connect call
  heard,       \* the transcripts as the events received define them
  pcm,         \* a sample on its way through the PCM16 conversions
  nextStartTimeRef,  \* ref: the playback cursor
  clock,       \* currentTime of each invocation's output audio context
  lastChunk,   \* the source scheduled last since the last interruption flush
  awaitFirst,  \* an interruption has flushed sources, no chunk arrived since
  nOps,        \* memory operations performed (bounded in SpecMemory)
  op,          \* the handler that ran last
  threw        \* whether it ended with an uncaught exception

vars == <<isConnected, isConnecting, errorMessage, sessionRef, streamRef,
          frameIntervalRef, outputGainNodeRef, inputGainNodeRef,
          sourcesRef, pc, transport,
          stream, timer, sources, decoding, prompts, nextId,
          memories, fontFamily, capture, nextStartTimeRef, clock,
          transcription, startMemories, systemInstruction, heard, pcm,
          lastChunk, awaitFirst, nOps,
          op, threw>>

\* What the program itself holds (everything but the record of the last handler).
progVars == <<isConnected, isConnecting, errorMessage, sessionRef, streamRef,
              frameIntervalRef, outputGainNodeRef, inputGainNodeRef,
              sourcesRef, pc, transport,
              stream, timer, sources, decoding, prompts, nextId,
              memories, fontFamily, capture, nextStartTimeRef, clock,
              transcription, startMemories, systemInstruction>>

\* The record of the model itself: not state of the program.
histVars == <<lastChunk, awaitFirst, nOps>>

\* What the session controller and the capture callbacks leave alone.
sideVars == <<transcription, startMemories, systemInstruction, heard, pcm>>

ConnState ==
  IF isConnected THEN "Connected" ELSE IF isConnecting THEN "Connecting" ELSE "Idle"

\* Who calls handleSessionError: the onerror callback, or startSession's catch.
Callers == {"onerror", "catch"}

\* Facts: those of the stored lists (1..MemoryCap) and two that no stored
\* list holds.
FreshFacts == {MemoryCap + 1, MemoryCap + 2}
Facts      == (1..MemoryCap) \cup FreshFacts
\* The facts a save is tried with: the first and the last a stored list can
\* hold and the fresh ones; a tool call carries the first or a fresh one.
SaveFacts == {1, MemoryCap} \cup FreshFacts
CallFacts == {1, MemoryCap + 1}

\* message.toolCall.functionCalls: each call has a name and args.fact; its id
\* is its position in the event.
SaveMemoryName == "save_memory"
FunctionCalls  == {[name |-> SaveMemoryName, fact |-> f] : f \in CallFacts}
                    \cup {[name |-> "other", fact |-> 0]}
CallLists      == UNION {[1..n -> FunctionCalls] : n \in 0..MaxCalls}

\* An inbound event: its tool calls, whether it carries audio (and how long
\* the chunk is, and whether its byte length is odd), whether it signals an
\* interruption, the transcript texts it carries (inputTranscription,
\* outputTranscription; a text is a sequence of characters) and whether it
\* signals turnComplete. In a handler
\* suspended at the decode, "at" is the output clock it read and "first"
\* whether it is the first chunk to arrive after an interruption flush,
\* "overtaken" whether the flush of a later event of its transport has run.
NoText  == [has |-> FALSE, text |-> <<>>]
Text(t) == [has |-> TRUE, text |-> t]
Event(calls, dur, intr) ==
  [audio |-> dur > 0, interrupted |-> intr, none |-> FALSE, dur |-> dur,
   calls |-> calls, at |-> 0, first |-> FALSE, overtaken |-> FALSE,
   truncated |-> FALSE, input |-> NoText, output |-> NoText,
   turnComplete |-> FALSE]
NoMessage == [Event(<<>>, 0, FALSE) EXCEPT !.none = TRUE]
\* Events without tool calls and audio, with audio, with tool calls, and all.
PlainMessages == {Event(<<>>, 0, intr) : intr \in BOOLEAN}
AudioMessages == {Event(<<>>, d, intr) : d \in 1..MaxDur, intr \in BOOLEAN}
ToolMessages  == {Event(c, 0, FALSE) : c \in CallLists \ {<<>>}}
\* Events whose audio has an odd number of bytes.
TruncatedMessages ==
  {[Event(<<>>, d, intr) EXCEPT !.truncated = TRUE] :
     d \in 1..MaxDur, intr \in BOOLEAN}
\* Events that carry transcript texts or a turn completion, with or without
\* audio.
Texts         == {<<"a">>, <<"b">>}
TranscriptParts ==
  {[input |-> Text(t), output |-> NoText, turnComplete |-> FALSE] : t \in Texts}
  \cup {[input |-> NoText, output |-> Text(t), turnComplete |-> FALSE] : t \in Texts}
  \cup {[input |-> NoText, output |-> o, turnComplete |-> TRUE] :
          o \in {NoText, Text(<<"a">>)}}
TranscriptMessages ==
  {[Event(<<>>, d, FALSE) EXCEPT !.input = p.input, !.output = p.output,
                                 !.turnComplete = p.turnComplete] :
     d \in 0..1, p \in TranscriptParts}
Messages      == {Event(c, d, intr) :
                    c \in CallLists, d \in 0..MaxDur, intr \in BOOLEAN}
\* Events of several parts: MaxCalls tool calls, with or without audio, and
\* with or without an interruption, a user transcript and a turn completion.
BatchMessages ==
  {[Event(c, d, intr) EXCEPT
      !.input = IF intr THEN Text(<<"a">>) ELSE NoText,
      !.turnComplete = intr] :
     c \in [1..MaxCalls -> FunctionCalls], d \in {0, MaxDur},
     intr \in BOOLEAN}

\* The stored lists a run starts from: the facts 1..n, for the lengths at
\* both ends of what the cap allows.
StoredLengths == {0, 1, MemoryCap - 1, MemoryCap}
StoredLists   == {[j \in 1..n |-> j] : n \in StoredLengths}

NoChunk == [has |-> FALSE, start |-> 0, dur |-> 0]

\* What the last handler did besides: nothing, or (onmessage) the responses
\* it sent, or (decode completion) the source it scheduled.
NoInfo == [kind |-> "none"]

InitCtl ==
  /\ isConnected = FALSE
  /\ isConnecting = FALSE
  /\ errorMessage = NoError
  /\ sessionRef = 0
  /\ streamRef = 0
  /\ frameIntervalRef = 0
  /\ outputGainNodeRef = 0
  /\ inputGainNodeRef = 0
  /\ sourcesRef = {}
  /\ pc = [i \in Sessions |-> "none"]
  /\ transport = [i \in Sessions |-> "none"]
  /\ stream = [i \in Sessions |-> "none"]
  /\ timer = [i \in Sessions |-> "none"]
  /\ sources = [s \in SourceIds |-> "none"]
  /\ decoding = [i \in Sessions |-> NoMessage]
  /\ prompts = [c \in Callers |-> 0]
  /\ nextId = 1
  /\ fontFamily = "sans"
  /\ capture = [i \in Sessions |-> "none"]
  /\ transcription = [user |-> <<>>, nia |-> <<>>]
  /\ heard = [user |-> <<>>, nia |-> <<>>]
  /\ startMemories = [i \in Sessions |-> <<>>]
  /\ systemInstruction = [i \in Sessions |-> <<>>]
  /\ nextStartTimeRef = 0
  /\ clock = [i \in Sessions |-> 0]
  /\ lastChunk = NoChunk
  /\ awaitFirst = FALSE
  /\ nOps = 0
  /\ op = [name |-> "init", by |-> "none", arg |-> {}, from |-> "Idle",
           stops |-> 0, info |-> NoInfo]
  /\ threw = FALSE

\* No sample is being converted.
NoSample == [stage |-> "none", sample |-> 0, int16 |-> <<0, 0>>, float |-> 0]

\* The App as mounted with nothing stored.
Init == InitCtl /\ memories = <<>> /\ pcm = NoSample

\* The App as mounted with a stored memory list.
InitMemory == InitCtl /\ memories \in StoredLists /\ pcm = NoSample

\* The record of the handler that has just run: its name, the caller of the
\* handleSessionError it resumed (if it did), the error message it was
\* given, how many handlers in a row (counted up to 2) have now run
\* stopSession (0 when this one did not), and the connection state in which
\* it was called (for a run of stopSession calls: the first of them).
DidWith(name, c, arg, stopped, info) ==
  op' = [name |-> name, by |-> c, arg |-> arg,
         from |-> IF stopped /\ op.stops > 0 THEN op.from ELSE ConnState,
         stops |-> IF stopped THEN (IF op.stops = 0 THEN 1 ELSE 2) ELSE 0,
         info |-> info]
DidBy(name, c, arg, stopped) == DidWith(name, c, arg, stopped, NoInfo)
Did(name, arg, stopped) == DidBy(name, "none", arg, stopped)


\* A guard that forgets isConnecting.
StartGuardConnectedOnly == isConnected

\* startSession's early return: "if (isConnecting || isConnected) return".
StartGuard == isConnecting \/ isConnected

(***************************************************************************)
(* stopSession and handleSessionError are written as functions of the      *)
(* state they read and write, so that they can be applied to any state.    *)
(***************************************************************************)
Cur ==
  [isConnected |-> isConnected, isConnecting |-> isConnecting,
   errorMessage |-> errorMessage, sessionRef |-> sessionRef,
   streamRef |-> streamRef, frameIntervalRef |-> frameIntervalRef,
   outputGainNodeRef |-> outputGainNodeRef,
   inputGainNodeRef |-> inputGainNodeRef, sourcesRef |-> sourcesRef,
   transport |-> transport, stream |-> stream, timer |-> timer,
   sources |-> sources, prompts |-> prompts, threw |-> FALSE,
   memories |-> memories, fontFamily |-> fontFamily, capture |-> capture,
   nextStartTimeRef |-> nextStartTimeRef,
   lastChunk |-> lastChunk, awaitFirst |-> awaitFirst,
   decoding |-> decoding, clock |-> clock, responses |-> <<>>,
   transcription |-> transcription, heard |-> heard, log |-> <<>>]

\* An output clock is tracked while a handler can still read it: while its
\* transport is open or a decode of that transport is in flight.
Tracked(r, i) == r.transport[i] = "open" \/ ~r.decoding[i].none

Commit(r) ==
  /\ isConnected' = r.isConnected
  /\ isConnecting' = r.isConnecting
  /\ errorMessage' = r.errorMessage
  /\ sessionRef' = r.sessionRef
  /\ streamRef' = r.streamRef
  /\ frameIntervalRef' = r.frameIntervalRef
  /\ outputGainNodeRef' = r.outputGainNodeRef
  /\ inputGainNodeRef' = r.inputGainNodeRef
  /\ sourcesRef' = r.sourcesRef
  /\ transport' = r.transport
  /\ stream' = r.stream
  /\ timer' = r.timer
  /\ sources' = r.sources
  /\ prompts' = r.prompts
  /\ threw' = r.threw
  /\ memories' = r.memories
  /\ fontFamily' = r.fontFamily
  /\ capture' = r.capture
  /\ transcription' = r.transcription
  /\ heard' = r.heard
  /\ UNCHANGED <<startMemories, systemInstruction, pcm>>
  /\ nextStartTimeRef' = r.nextStartTimeRef
  /\ lastChunk' = r.lastChunk
  /\ awaitFirst' = r.awaitFirst
  /\ decoding' = r.decoding
  /\ clock' = [i \in Sessions |-> IF Tracked(r, i) THEN r.clock[i] ELSE 0]

\* Which of stopSession's release calls throw. The platform's close(),
\* clearInterval(), track.stop() and source.stop() do not throw on the
\* objects this program gives them, so Spec runs with NoFault; SpecFault
\* lets any of them throw.
Faults  == [close : BOOLEAN, timer : BOOLEAN, track : BOOLEAN, source : BOOLEAN]
NoFault == [close |-> FALSE, timer |-> FALSE, track |-> FALSE, source |-> FALSE]

\* session.close(): the transport starts closing; its close event comes later.
Close(tr, i) ==
  [tr EXCEPT ![i] = IF @ \in {"opening", "open"} THEN "closing" ELSE @]

\* if (sessionRef.current) { try { close() } catch {} ; sessionRef.current = null }
closeSession(s, f) ==
  IF s.sessionRef # 0
  THEN [s EXCEPT !.transport = IF f.close THEN @ ELSE Close(@, s.sessionRef),
                 !.sessionRef = 0]
  ELSE s

\* if (frameIntervalRef.current) { clearInterval(...); frameIntervalRef.current = null }
clearFrameInterval(s, f) ==
  IF s.frameIntervalRef # 0
  THEN IF f.timer
       THEN [s EXCEPT !.threw = TRUE]
       ELSE [s EXCEPT !.timer[s.frameIntervalRef] = "none",
                      !.frameIntervalRef = 0]
  ELSE s

\* if (streamRef.current) { getTracks().forEach(t => t.stop()); streamRef.current = null }
stopTracks(s, f) ==
  IF s.streamRef # 0
  THEN IF f.track
       THEN [s EXCEPT !.threw = TRUE]
       ELSE [s EXCEPT !.stream[s.streamRef] = "none", !.streamRef = 0]
  ELSE s

\* for (const source of sourcesRef.current) try { source.stop() } catch {} ;
\* sourcesRef.current.clear()
stopSources(s, f) ==
  [s EXCEPT !.sources = [x \in SourceIds |->
                           IF x \in s.sourcesRef /\ ~f.source
                           THEN "none" ELSE @[x]],
            !.sourcesRef = {}]

\* A reset that forgets setIsConnecting(false).
resetFlagsKeepConnecting(s) ==
  [s EXCEPT !.isConnected = FALSE,
            !.outputGainNodeRef = 0, !.inputGainNodeRef = 0]

\* A reset that also empties the memory list.
resetFlagsForgetMemories(s) ==
  [s EXCEPT !.isConnected = FALSE, !.isConnecting = FALSE,
            !.outputGainNodeRef = 0, !.inputGainNodeRef = 0,
            !.memories = <<>>]

\* setIsConnected(false); setIsConnecting(false); both gain refs = null
resetFlags(s) ==
  [s EXCEPT !.isConnected = FALSE, !.isConnecting = FALSE,
            !.outputGainNodeRef = 0, !.inputGainNodeRef = 0]

stopSession(s, f) ==
  LET s1 == closeSession(s, f)
      s2 == clearFrameInterval(s1, f)
      s3 == stopTracks(s2, f)
  IN  IF s2.threw THEN s2
      ELSE IF s3.threw THEN s3
      ELSE resetFlags(stopSources(s3, f))

\* A classification that looks for "quota" only.
ErrorTextQuotaOnly(msg) ==
  IF NotFoundMarker \in msg THEN ConfigErrorText
  ELSE IF QuotaMarker \in msg THEN QuotaText
  ELSE ConnectionLostText

\* The text handleSessionError displays for a message.
ErrorText(msg) ==
  IF NotFoundMarker \in msg THEN ConfigErrorText
  ELSE IF QuotaMarker \in msg \/ Marker429 \in msg THEN QuotaText
  ELSE ConnectionLostText

\* Whether handleSessionError suspends at "await openSelectKey()".
AwaitsPrompt(msg, avail) == NotFoundMarker \in msg /\ avail

Pending(p) == p["onerror"] + p["catch"]

\* handleSessionError, called by c, up to its first suspension (or to its end).
handleSessionError(s, c, msg, avail, f) ==
  LET s1 == [s EXCEPT !.errorMessage = ErrorText(msg)]
  IN  IF AwaitsPrompt(msg, avail)
      THEN [s1 EXCEPT !.prompts[c] = @ + 1]
      ELSE stopSession(s1, f)

\* A flush that forgets to reset the cursor.
flushKeepCursor(s) ==
  [s EXCEPT !.sources = [x \in SourceIds |->
                           IF x \in s.sourcesRef THEN "none" ELSE @[x]],
            !.sourcesRef = {},
            !.lastChunk = NoChunk,
            !.awaitFirst = @ \/ s.sourcesRef # {}]

\* The interruption branch of onmessage: stop every source (in try/catch),
\* clear the set, nextStartTimeRef.current = 0.
flush(s) ==
  [s EXCEPT !.sources = [x \in SourceIds |->
                           IF x \in s.sourcesRef THEN "none" ELSE @[x]],
            !.sourcesRef = {}, !.nextStartTimeRef = 0,
            !.lastChunk = NoChunk,
            !.awaitFirst = @ \/ s.sourcesRef # {}]


(***************************************************************************)
(* The handlers.                                                           *)
(***************************************************************************)

\* The position of a startSession invocation: "none" (not made), "gum"
\* (awaiting getUserMedia), "connect" (awaiting the connect call), "end"
\* (returned, or awaiting a connect call that can no longer settle: the SDK
\* settles it when the transport opens, and a transport that failed or
\* closed never opens).
Settled(p) == IF p = "connect" THEN "end" ELSE p

\* The parts the system instruction is concatenated from: the imported
\* SYSTEM_INSTRUCTION, the "### MEMORIES:" header and one "- fact" line per
\* entry (when the list is not empty), and the closing sentence.
Part(kind, fact) == [kind |-> kind, fact |-> fact]

\* memories.length > 0 ? `\n### MEMORIES:\n${memories.map(m => `- ${m}`).join('\n')}` : ""
memoryContext(mem) ==
  IF Len(mem) > 0
  THEN <<Part("header", 0)>> \o [j \in 1..Len(mem) |-> Part("bullet", mem[j])]
  ELSE <<>>

\* SYSTEM_INSTRUCTION + memoryContext + `\nYou are NIA. ...`
SystemInstruction(mem) ==
  <<Part("SYSTEM_INSTRUCTION", 0)>> \o memoryContext(mem) \o <<Part("closing", 0)>>

\* startSession up to "await getUserMedia" (or its early return). The
\* invocation closes over the memory list of the render it was created in.
StartSessionWithin(n) ==
  /\ Did("startSession", {}, FALSE)
  /\ threw' = FALSE
  /\ IF StartGuard
     THEN UNCHANGED progVars
     ELSE /\ nextId <= n
          /\ isConnecting' = TRUE
          /\ errorMessage' = NoError
          /\ pc' = [pc EXCEPT ![nextId] = "gum"]
          /\ nextId' = nextId + 1
          /\ startMemories' = [startMemories EXCEPT ![nextId] = memories]
          /\ UNCHANGED <<isConnected, sessionRef, streamRef, frameIntervalRef,
                         outputGainNodeRef, inputGainNodeRef, sourcesRef, transport, stream,
                         timer, sources, decoding, prompts,
                         memories, fontFamily, capture, nextStartTimeRef, clock,
                         transcription, systemInstruction>>
  /\ UNCHANGED histVars
  /\ UNCHANGED <<heard, pcm>>

StartSession == StartSessionWithin(MaxSessions)

\* getUserMedia resolves: startSession runs on to "await sessionPromise".
GetUserMediaResolved(i) ==
  /\ pc[i] = "gum"
  /\ Did("getUserMediaResolved", {}, FALSE)
  /\ streamRef' = i
  /\ stream' = [stream EXCEPT ![i] = "live"]
  /\ inputGainNodeRef' = i
  /\ outputGainNodeRef' = i
  /\ transport' = [transport EXCEPT ![i] = "opening"]
  /\ pc' = [pc EXCEPT ![i] = "connect"]
  /\ clock' = [clock EXCEPT ![i] = 0]
  /\ systemInstruction' =
       [systemInstruction EXCEPT ![i] = SystemInstruction(startMemories[i])]
  /\ threw' = FALSE
  /\ UNCHANGED <<isConnected, isConnecting, errorMessage, sessionRef,
                 frameIntervalRef, sourcesRef, timer, sources, decoding,
                 prompts, nextId, memories, fontFamily, capture, nextStartTimeRef>>
  /\ UNCHANGED histVars
  /\ UNCHANGED <<transcription, startMemories, heard, pcm>>

\* getUserMedia rejects: catch (err) { handleSessionError(err) }.
GetUserMediaRejected(i, F) ==
  /\ pc[i] = "gum"
  /\ \E f \in F :
       Commit(handleSessionError(Cur, "catch", DeviceErrorMessage, FALSE, f))
  /\ Did("getUserMediaRejected", DeviceErrorMessage, TRUE)
  /\ pc' = [pc EXCEPT ![i] = "end"]
  /\ UNCHANGED <<nextId, nOps>>

\* "sessionRef.current = await sessionPromise": the connect call resolves
\* once its transport is open.
ConnectResolved(i) ==
  /\ pc[i] = "connect"
  /\ transport[i] = "open"
  /\ Did("connectResolved", {}, FALSE)
  /\ sessionRef' = i
  /\ pc' = [pc EXCEPT ![i] = "end"]
  /\ threw' = FALSE
  /\ UNCHANGED <<isConnected, isConnecting, errorMessage, streamRef,
                 frameIntervalRef, outputGainNodeRef, inputGainNodeRef,
                 sourcesRef, transport,
                 stream, timer, sources, decoding, prompts, nextId,
                 memories, fontFamily, capture, nextStartTimeRef, clock>>
  /\ UNCHANGED histVars
  /\ UNCHANGED sideVars

\* The connect call rejects before its transport opens.
ConnectRejected(i, F) ==
  /\ pc[i] = "connect"
  /\ transport[i] = "opening"
  /\ \E msg \in ErrorMessages, avail \in BOOLEAN, f \in F :
       /\ avail => NotFoundMarker \in msg   \* read on that path only
       /\ AwaitsPrompt(msg, avail) => Pending(prompts) < MaxPrompts
       /\ Commit(handleSessionError(
                   [Cur EXCEPT !.transport[i] = "none"], "catch", msg, avail, f))
       /\ Did("connectRejected", msg, ~AwaitsPrompt(msg, avail))
  /\ pc' = [pc EXCEPT ![i] = "end"]
  /\ UNCHANGED <<nextId, nOps>>

\* callbacks.onopen
OnOpen(i) ==
  /\ transport[i] = "opening"
  /\ Did("onopen", {}, FALSE)
  /\ transport' = [transport EXCEPT ![i] = "open"]
  /\ isConnected' = TRUE
  /\ isConnecting' = FALSE
  /\ timer' = [timer EXCEPT ![i] = "active"]
  /\ frameIntervalRef' = i
  /\ capture' = [capture EXCEPT ![i] = "idle"]
  /\ threw' = FALSE
  /\ UNCHANGED <<errorMessage, sessionRef, streamRef, outputGainNodeRef,
                 inputGainNodeRef, sourcesRef, pc, stream, sources, decoding,
                 prompts, nextId, memories, fontFamily, nextStartTimeRef, clock>>
  /\ UNCHANGED histVars
  /\ UNCHANGED sideVars

\* callbacks.onerror: (e) => handleSessionError(e). A transport that has
\* reported an error is closing.
OnError(i, F) ==
  /\ transport[i] \in {"opening", "open"}
  /\ \E msg \in ErrorMessages, avail \in BOOLEAN, f \in F :
       /\ avail => NotFoundMarker \in msg   \* read on that path only
       /\ AwaitsPrompt(msg, avail) => Pending(prompts) < MaxPrompts
       /\ Commit(handleSessionError(
                   [Cur EXCEPT !.transport[i] = "closing"], "onerror", msg, avail, f))
       /\ Did("onerror", msg, ~AwaitsPrompt(msg, avail))
  /\ pc' = [pc EXCEPT ![i] = Settled(@)]
  /\ UNCHANGED <<nextId, nOps>>

\* callbacks.onclose: () => stopSession(), on the close event of a transport
\* closed by the remote side, by session.close() or after an error.
OnClose(i, F) ==
  /\ transport[i] \in {"open", "closing"}
  /\ \E f \in F :
       Commit(stopSession([Cur EXCEPT !.transport[i] = "none"], f))
  /\ Did("onclose", {}, TRUE)
  /\ pc' = [pc EXCEPT ![i] = Settled(@)]
  /\ UNCHANGED <<nextId, nOps>>

\* The stop button (rendered while isConnected): onClick={stopSession}.
StopClick(F) ==
  /\ isConnected
  /\ \E f \in F : Commit(stopSession(Cur, f))
  /\ Did("stopSession", {}, TRUE)
  /\ UNCHANGED <<pc, nextId, nOps>>

\* openSelectKey resolves: handleSessionError (called by c) runs on to
\* stopSession().
PromptResolved(c, F) ==
  /\ prompts[c] > 0
  /\ \E f \in F : Commit(stopSession([Cur EXCEPT !.prompts[c] = @ - 1], f))
  /\ DidBy("openSelectKeyResolved", c, {}, TRUE)
  /\ UNCHANGED <<pc, nextId, nOps>>

\* openSelectKey rejects: handleSessionError's promise rejects, and neither
\* caller handles the rejection.
PromptRejected(c) ==
  /\ prompts[c] > 0
  /\ Commit([Cur EXCEPT !.prompts[c] = @ - 1, !.threw = TRUE])
  /\ DidBy("openSelectKeyRejected", c, {}, FALSE)
  /\ UNCHANGED <<pc, nextId, nOps>>


\* The sources that exist (started, neither ended nor stopped), the decodes
\* in flight, and the id a new source gets (0 when none is free). A source
\* that has ended or was stopped is gone: its id is free again.
UsedSources == {x \in SourceIds : sources[x] # "none"}
InFlight    == {i \in Sessions : decoding[i] # NoMessage}
NewSource   ==
  IF SourceIds \subseteq UsedSources THEN 0
  ELSE CHOOSE x \in SourceIds \ UsedSources :
         \A y \in SourceIds \ UsedSources : x <= y

Max(a, b) == IF a >= b THEN a ELSE b

\* q.slice(0, n)
Slice(q, n) == SubSeq(q, 1, IF Len(q) < n THEN Len(q) ELSE n)

\* A save that does not look for duplicates.
handleSaveMemoryNoDedup(prev, fact) == Slice(<<fact>> \o prev, MemoryCap)

\* A save that does not cap the list.
handleSaveMemoryNoCap(prev, fact) ==
  IF \E j \in 1..Len(prev) : prev[j] = fact THEN prev ELSE <<fact>> \o prev

\* handleSaveMemory's updater:
\* prev => prev.includes(fact) ? prev : [fact, ...prev].slice(0, 50)
handleSaveMemory(prev, fact) ==
  IF \E j \in 1..Len(prev) : prev[j] = fact
  THEN prev
  ELSE Slice(<<fact>> \o prev, MemoryCap)

\* ... and the string it returns.
SaveResult == "Memory saved."

\* The save_memory calls among cs.
SaveCalls(cs) == {k \in 1..Len(cs) : cs[k].name = SaveMemoryName}

\* The effects of one handler are logged in the order they take place:
\* what was done and, for a save or a response, for which call.
Logged(s, what, k) == [s EXCEPT !.log = Append(@, [what |-> what, call |-> k])]

\* A loop body that sends the response before it saves.
respondThenSave(s, cs, k) ==
  IF s.sessionRef = 0
  THEN [s EXCEPT !.threw = TRUE]
  ELSE LET s1 == Logged([s EXCEPT !.responses =
                           Append(@, [id |-> k, on |-> s.sessionRef,
                                      result |-> SaveResult])],
                        "respond", k)
       IN  Logged([s1 EXCEPT !.memories = handleSaveMemory(@, cs[k].fact)],
                  "save", k)

\* The loop body for a save_memory call: handleSaveMemory and then
\* sessionRef.current.sendToolResponse(...), a TypeError when
\* sessionRef.current is null.
saveThenRespond(s, cs, k) ==
  LET s1 == Logged([s EXCEPT !.memories = handleSaveMemory(@, cs[k].fact)],
                   "save", k)
  IN  IF s1.sessionRef = 0
      THEN [s1 EXCEPT !.threw = TRUE]
      ELSE Logged([s1 EXCEPT !.responses =
                     Append(@, [id |-> k, on |-> s1.sessionRef,
                                result |-> SaveResult])],
                  "respond", k)

\* The tool-call loop of onmessage from call k on; an exception ends it
\* (and the handler).
RECURSIVE toolCallLoop(_, _, _)
toolCallLoop(s, cs, k) ==
  IF k > Len(cs) THEN s
  ELSE IF cs[k].name # SaveMemoryName THEN toolCallLoop(s, cs, k + 1)
  ELSE LET s1 == saveThenRespond(s, cs, k)
       IN  IF s1.threw THEN s1 ELSE toolCallLoop(s1, cs, k + 1)

\* if (message.serverContent?.interrupted) { flush }
interruption(s, m) == IF m.interrupted THEN Logged(flush(s), "flush", 0) ELSE s

\* The three setTranscription calls: inputTranscription replaces user,
\* outputTranscription is appended to nia, turnComplete empties nia.
transcripts(s, m) ==
  LET s1 == IF m.input.has
            THEN Logged([s EXCEPT !.transcription.user = m.input.text],
                        "user", 0)
            ELSE s
      s2 == IF m.output.has
            THEN Logged([s1 EXCEPT !.transcription.nia = @ \o m.output.text],
                        "nia", 0)
            ELSE s1
  IN  IF m.turnComplete
      THEN Logged([s2 EXCEPT !.transcription.nia = <<>>], "turn", 0)
      ELSE s2

\* The part of onmessage after the audio branch: the interruption flush and
\* the transcript updates.
AfterAudio(s, m) == transcripts(interruption(s, m), m)

\* The transcripts an event defines when it arrives: the user's is the
\* latest user text, NIA's the texts since the last turn completion.
Heard(h, m) ==
  LET u == IF m.input.has THEN m.input.text ELSE h.user
      n == IF m.output.has THEN h.nia \o m.output.text ELSE h.nia
  IN  [user |-> u, nia |-> IF m.turnComplete THEN <<>> ELSE n]

\* callbacks.onmessage up to "await decodeAudioData" (or to its end when the
\* audio branch is not taken, or when the tool-call loop throws). A transport
\* delivers events while it is open, also while the handler of an earlier
\* event is suspended at its decode; one decode per transport is in flight at
\* a time.
OnMessage(i, M) ==
  /\ transport[i] = "open"
  /\ \E m \in M :
       LET s0  == [Cur EXCEPT !.heard = Heard(@, m)]
           s1  == toolCallLoop(s0, m.calls, 1)
           enq == m.audio /\ outputGainNodeRef # 0
           cur == Max(nextStartTimeRef, clock[i])
           r   == IF s1.threw THEN s1
                  ELSE IF enq
                  THEN Logged([s1 EXCEPT
                         !.nextStartTimeRef = cur,
                         !.awaitFirst = FALSE,
                         !.decoding[i] = [m EXCEPT !.at = clock[i],
                                                   !.first = awaitFirst]],
                         "enqueue", 0)
                  ELSE AfterAudio(
                         [s1 EXCEPT !.decoding[i] =
                            IF @ # NoMessage /\ m.interrupted
                            THEN [@ EXCEPT !.overtaken = TRUE] ELSE @], m)
           inf == [kind |-> "onmessage", on |-> i, calls |-> m.calls,
                   responses |-> s1.responses,
                   flushed |-> ~s1.threw /\ ~enq /\ m.interrupted,
                   had |-> Cardinality(sourcesRef),
                   cursor |-> nextStartTimeRef, log |-> r.log]
       IN  /\ nOps + Cardinality(SaveCalls(m.calls)) <= MaxOps
           /\ nOps' = nOps + Cardinality(SaveCalls(m.calls))
           /\ Len(r.heard.nia) <= MaxText
           /\ (~s1.threw /\ enq) =>
                /\ decoding[i] = NoMessage
                /\ Cardinality(UsedSources) + Cardinality(InFlight) < MaxSources
                /\ cur + m.dur <= MaxTime
           /\ DidWith("onmessage", "none", {}, FALSE, inf)
           /\ Commit(r)
  /\ UNCHANGED <<pc, nextId>>

\* A cursor that is not advanced.
advanceNothing(t, d) == t

\* nextStartTimeRef.current += buffer.duration
advance(t, d) == t + d

\* The decode completes. new Int16Array(data.buffer) throws a RangeError
\* when the byte length is odd. Otherwise onmessage creates the source,
\* connects it to outputGainNodeRef.current (which throws when that is null
\* or a node of another audio context), starts it at the cursor, advances
\* the cursor by the chunk's duration and adds the source to sourcesRef,
\* then runs on.
DecodeDone(i) ==
  /\ decoding[i] # NoMessage
  /\ NewSource \in SourceIds
  /\ LET m  == decoding[i]
         s0 == [Cur EXCEPT !.decoding[i] = NoMessage]
         ok == ~m.truncated /\ outputGainNodeRef = i
         inf == [kind |-> "decodeDone", on |-> i,
                 sched |-> ok, truncated |-> m.truncated,
                 start |-> nextStartTimeRef, dur |-> m.dur, at |-> m.at,
                 now |-> clock[i], first |-> m.first,
                 overtaken |-> m.overtaken, prev |-> lastChunk,
                 flushed |-> ok /\ m.interrupted,
                 had |-> Cardinality(sourcesRef) + 1,
                 open |-> transport[i] = "open", current |-> sessionRef,
                 cursor |-> nextStartTimeRef, members |-> sourcesRef]
     IN  /\ DidWith("decodeDone", "none", {}, FALSE, inf)
         /\ IF ok
            THEN /\ nextStartTimeRef + m.dur <= MaxTime
                 /\ Commit(AfterAudio(
                      [s0 EXCEPT
                         !.sources[NewSource] = "playing",
                         !.sourcesRef = @ \cup {NewSource},
                         !.nextStartTimeRef = advance(@, m.dur),
                         !.lastChunk = [has |-> TRUE,
                                        start |-> nextStartTimeRef,
                                        dur |-> m.dur]], m))
            ELSE Commit([s0 EXCEPT !.threw = TRUE])
  /\ UNCHANGED <<pc, nextId, nOps>>

\* The output clock of invocation i advances (no handler runs). It is read
\* by the onmessage of transport i only.
Tick(i) ==
  /\ Tracked(Cur, i)
  /\ clock[i] < MaxTime
  /\ clock' = [clock EXCEPT ![i] = @ + 1]
  /\ UNCHANGED <<op, threw>>
  /\ UNCHANGED <<isConnected, isConnecting, errorMessage, sessionRef, streamRef,
                 frameIntervalRef, outputGainNodeRef, inputGainNodeRef,
                 sourcesRef, pc, transport, stream, timer, sources, decoding,
                 prompts, nextId, memories, fontFamily, capture, nextStartTimeRef>>
  /\ UNCHANGED histVars
  /\ UNCHANGED sideVars

\* handleSaveMemory called with a fact (the operation the tool call uses).
SaveMemory(f) ==
  /\ nOps < MaxOps
  /\ nOps' = nOps + 1
  /\ memories' = handleSaveMemory(memories, f)
  /\ DidWith("saveMemory", "none", {}, FALSE,
             [kind |-> "save", fact |-> f, before |-> memories,
              result |-> SaveResult])
  /\ threw' = FALSE
  /\ UNCHANGED <<isConnected, isConnecting, errorMessage, sessionRef, streamRef,
                 frameIntervalRef, outputGainNodeRef, inputGainNodeRef,
                 sourcesRef, pc, transport, stream, timer, sources, decoding,
                 prompts, nextId, fontFamily, capture, nextStartTimeRef, clock,
                 lastChunk, awaitFirst>>
  /\ UNCHANGED sideVars

\* p.filter((_, idx) => idx !== i), with indices from 1.
RemoveAt(q, k) ==
  [j \in 1..(Len(q) - 1) |-> IF j < k THEN q[j] ELSE q[j + 1]]

\* The remove button of the k-th entry of the list.
RemoveMemory(k) ==
  /\ k \in 1..Len(memories)
  /\ nOps < MaxOps
  /\ nOps' = nOps + 1
  /\ memories' = RemoveAt(memories, k)
  /\ Did("removeMemory", {}, FALSE)
  /\ threw' = FALSE
  /\ UNCHANGED <<isConnected, isConnecting, errorMessage, sessionRef, streamRef,
                 frameIntervalRef, outputGainNodeRef, inputGainNodeRef,
                 sourcesRef, pc, transport, stream, timer, sources, decoding,
                 prompts, nextId, fontFamily, capture, nextStartTimeRef, clock,
                 lastChunk, awaitFirst>>
  /\ UNCHANGED sideVars

\* The Clear All button (rendered while the list is not empty).
ClearAll ==
  /\ Len(memories) > 0
  /\ nOps < MaxOps
  /\ nOps' = nOps + 1
  /\ memories' = <<>>
  /\ Did("clearAll", {}, FALSE)
  /\ threw' = FALSE
  /\ UNCHANGED <<isConnected, isConnecting, errorMessage, sessionRef, streamRef,
                 frameIntervalRef, outputGainNodeRef, inputGainNodeRef,
                 sourcesRef, pc, transport, stream, timer, sources, decoding,
                 prompts, nextId, fontFamily, capture, nextStartTimeRef, clock,
                 lastChunk, awaitFirst>>
  /\ UNCHANGED sideVars

\* An 'ended' listener that leaves the source in the set.
SourceEndedKeep(x) ==
  /\ sources[x] = "playing"
  /\ sources' = [sources EXCEPT ![x] = "none"]
  /\ threw' = FALSE
  /\ Did("ended", {}, FALSE)
  /\ UNCHANGED <<isConnected, isConnecting, errorMessage, sessionRef, streamRef,
                 frameIntervalRef, outputGainNodeRef, inputGainNodeRef,
                 sourcesRef, pc, transport, stream,
                 timer, decoding, prompts, nextId,
                 memories, fontFamily, capture, nextStartTimeRef, clock>>
  /\ UNCHANGED histVars
  /\ UNCHANGED sideVars

\* A source plays to its end: its 'ended' listener deletes it from sourcesRef.
SourceEnded(x) ==
  /\ sources[x] = "playing"
  /\ sources' = [sources EXCEPT ![x] = "none"]
  /\ sourcesRef' = sourcesRef \ {x}
  /\ threw' = FALSE
  /\ Did("ended", {}, FALSE)
  /\ UNCHANGED <<isConnected, isConnecting, errorMessage, sessionRef, streamRef,
                 frameIntervalRef, outputGainNodeRef, inputGainNodeRef,
                 pc, transport, stream,
                 timer, decoding, prompts, nextId,
                 memories, fontFamily, capture, nextStartTimeRef, clock>>
  /\ UNCHANGED histVars
  /\ UNCHANGED sideVars

\* The font buttons: onClick={() => setFontFamily('sans' | 'serif')}.
SetFontFamily(f) ==
  /\ fontFamily' = f
  /\ Did("setFontFamily", {}, FALSE)
  /\ threw' = FALSE
  /\ UNCHANGED <<isConnected, isConnecting, errorMessage, sessionRef, streamRef,
                 frameIntervalRef, outputGainNodeRef, inputGainNodeRef,
                 sourcesRef, pc, transport, stream, timer, sources, decoding,
                 prompts, nextId, memories, capture, nextStartTimeRef, clock>>
  /\ UNCHANGED histVars
  /\ UNCHANGED sideVars

\* What a capture callback of invocation i did: whether it sent a frame, and
\* on which session.
Frame(i, channel, sent) ==
  [kind |-> "frame", channel |-> channel, sent |-> sent, pipeline |-> i,
   on |-> IF sent THEN sessionRef ELSE 0]

\* A step of the capture callbacks of invocation i: cap is the new position
\* of its video frame.
CaptureStep(i, name, cap, info, t) ==
  /\ capture' = [capture EXCEPT ![i] = cap]
  /\ DidWith(name, "none", {}, FALSE, info)
  /\ threw' = t
  /\ UNCHANGED <<isConnected, isConnecting, errorMessage, sessionRef, streamRef,
                 frameIntervalRef, outputGainNodeRef, inputGainNodeRef,
                 sourcesRef, pc, transport, stream, timer, sources, decoding,
                 prompts, nextId, memories, fontFamily, nextStartTimeRef, clock>>
  /\ UNCHANGED histVars
  /\ UNCHANGED sideVars

\* scriptProcessor.onaudioprocess, which fires from onopen on (the input
\* audio context is never closed):
\* if (sessionRef.current) sessionRef.current.sendRealtimeInput(...)
AudioProcess(i) ==
  /\ capture[i] # "none"
  /\ CaptureStep(i, "onaudioprocess", capture[i],
                 Frame(i, "audio", sessionRef # 0), FALSE)

\* The interval callback, while the timer is not cleared: with a session
\* reference it draws the frame and calls toBlob.
VideoTick(i) ==
  /\ timer[i] = "active"
  /\ capture[i] = "idle"
  /\ CaptureStep(i, "videoInterval", IF sessionRef # 0 THEN "blob" ELSE "idle",
                 Frame(i, "video", FALSE), FALSE)

\* The toBlob callback: if (blob && sessionRef.current) readAsDataURL(blob).
BlobReady(i) ==
  /\ capture[i] = "blob"
  /\ CaptureStep(i, "toBlobCallback", IF sessionRef # 0 THEN "read" ELSE "idle",
                 Frame(i, "video", FALSE), FALSE)

\* reader.onloadend: sessionRef.current.sendRealtimeInput(...), a TypeError
\* when sessionRef.current is null.
ReadDone(i) ==
  /\ capture[i] = "read"
  /\ CaptureStep(i, "onloadend", "idle",
                 Frame(i, "video", sessionRef # 0), sessionRef = 0)

\* ---- The PCM16 conversions ----
\* A float sample is the integer n standing for n / (32768 * SubSteps): the
\* multiplication and the division by 32768 are exact in binary floating
\* point, so that n \div SubSteps is the whole part of sample * 32768.
FullScale == 32768 * SubSteps

\* The samples of an input buffer: around -1, -1/2, 0, 1/2 and 1, both ends
\* of the closed interval included.
Samples ==
  {c * SubSteps + d : c \in {-32768, -16384, 0, 16384, 32768},
                      d \in -(2 * SubSteps)..(2 * SubSteps)}
    \cap (-FullScale..FullScale)

Abs(x) == IF x >= 0 THEN x ELSE -x

\* The whole part of n / d, rounded towards zero.
Trunc(n, d) == IF n >= 0 THEN n \div d ELSE -((-n) \div d)

\* A store into an Int16Array element: the number is truncated and taken
\* modulo 2^16 into -32768..32767.
ToInt16(x) == ((x + 32768) % 65536) - 32768

\* "int16[i] = inputData[i] * 32768"
toPcm16(n) == ToInt16(Trunc(n, SubSteps))

\* "new Uint8Array(int16.buffer)": the two bytes of an element, low byte first.
Bytes(k) == LET u == k % 65536 IN <<u % 256, u \div 256>>

\* "new Int16Array(data.buffer)": the element of two bytes.
FromBytes(b) == ToInt16(b[1] + 256 * b[2])

\* "channelData[i] = dataInt16[...] / 32768.0", as a sample numerator.
toFloat(k) == k * SubSteps

pcmRest == <<isConnected, isConnecting, errorMessage, sessionRef, streamRef,
             frameIntervalRef, outputGainNodeRef, inputGainNodeRef,
             sourcesRef, pc, transport,
             stream, timer, sources, decoding, prompts, nextId,
             memories, fontFamily, capture, nextStartTimeRef, clock,
             transcription, startMemories, systemInstruction, heard,
             lastChunk, awaitFirst, nOps, op, threw>>

\* The loop body of onaudioprocess on one sample, and the bytes it sends.
EncodeSample ==
  /\ pcm.stage = "sample"
  /\ pcm' = [pcm EXCEPT !.stage = "int16", !.int16 = Bytes(toPcm16(pcm.sample))]
  /\ UNCHANGED pcmRest

\* The loop body of decodeAudioData on the bytes of one sample.
DecodeSample ==
  /\ pcm.stage = "int16"
  /\ pcm' = [pcm EXCEPT !.stage = "float", !.float = toFloat(FromBytes(pcm.int16))]
  /\ UNCHANGED pcmRest

InitPcm ==
  /\ InitCtl
  /\ memories = <<>>
  /\ pcm \in {[stage |-> "sample", sample |-> n, int16 |-> <<0, 0>>, float |-> 0] :
                n \in Samples}

\* The session controller: every handler of the session, with the events
\* that carry neither audio nor tool calls.
Next ==
  \/ StartSession
  \/ \E i \in Sessions : GetUserMediaResolved(i)
  \/ \E i \in Sessions : GetUserMediaRejected(i, {NoFault})
  \/ \E i \in Sessions : ConnectResolved(i)
  \/ \E i \in Sessions : ConnectRejected(i, {NoFault})
  \/ \E i \in Sessions : OnOpen(i)
  \/ \E i \in Sessions : OnMessage(i, PlainMessages)
  \/ \E i \in Sessions : OnError(i, {NoFault})
  \/ \E i \in Sessions : OnClose(i, {NoFault})
  \/ StopClick({NoFault})
  \/ \E c \in Callers : PromptResolved(c, {NoFault})
  \/ \E c \in Callers : PromptRejected(c)

Spec == Init /\ [][Next]_vars

\* What the platform brings about sooner or later: the device-permission
\* request of an invocation resolves or rejects; its transport negotiation
\* ends with the open event, with a rejection of the connect call or with
\* an error; the connect call resolves once the transport is open; the close
\* event of a closing transport arrives; a credential prompt resolves or
\* rejects.
PermissionSettles(i) ==
  GetUserMediaResolved(i) \/ GetUserMediaRejected(i, {NoFault})

NegotiationSettles(i) ==
  /\ transport[i] = "opening"
  /\ OnOpen(i) \/ ConnectRejected(i, {NoFault}) \/ OnError(i, {NoFault})

CloseArrives(i) == transport[i] = "closing" /\ OnClose(i, {NoFault})

PromptSettles(c) == PromptResolved(c, {NoFault}) \/ PromptRejected(c)

\* The session controller with these guarantees.
SpecProgress ==
  /\ Init
  /\ [][Next]_vars
  /\ \A i \in Sessions : WF_vars(PermissionSettles(i))
  /\ \A i \in Sessions : WF_vars(NegotiationSettles(i))
  /\ \A i \in Sessions : WF_vars(ConnectResolved(i))
  /\ \A i \in Sessions : WF_vars(CloseArrives(i))
  /\ \A c \in Callers : WF_vars(PromptSettles(c))

\* The same program on a platform whose release calls may throw.
NextFault ==
  \/ StartSession
  \/ \E i \in Sessions : GetUserMediaResolved(i)
  \/ \E i \in Sessions : GetUserMediaRejected(i, Faults)
  \/ \E i \in Sessions : ConnectResolved(i)
  \/ \E i \in Sessions : ConnectRejected(i, Faults)
  \/ \E i \in Sessions : OnOpen(i)
  \/ \E i \in Sessions : OnMessage(i, PlainMessages)
  \/ \E i \in Sessions : OnError(i, Faults)
  \/ \E i \in Sessions : OnClose(i, Faults)
  \/ StopClick(Faults)
  \/ \E c \in Callers : PromptResolved(c, Faults)
  \/ \E c \in Callers : PromptRejected(c)

SpecFault == Init /\ [][NextFault]_vars

\* Playback: a session that opens and receives audio and interruptions while
\* its output clock advances.
NextPlayback ==
  \/ StartSession
  \/ \E i \in Sessions : GetUserMediaResolved(i)
  \/ \E i \in Sessions : ConnectResolved(i)
  \/ \E i \in Sessions : OnOpen(i)
  \/ \E i \in Sessions :
       OnMessage(i, PlainMessages \cup AudioMessages \cup TruncatedMessages)
  \/ \E i \in Sessions : DecodeDone(i)
  \/ \E x \in SourceIds : SourceEnded(x)
  \/ \E i \in Sessions : Tick(i)

SpecPlayback == Init /\ [][NextPlayback]_vars

\* Playback across sessions: sessions that receive audio without
\* interruptions, are stopped or closed, and are started again.
NextLive ==
  \/ StartSession
  \/ \E i \in Sessions : GetUserMediaResolved(i)
  \/ \E i \in Sessions : ConnectResolved(i)
  \/ \E i \in Sessions : OnOpen(i)
  \/ \E i \in Sessions : OnMessage(i, {m \in AudioMessages : ~m.interrupted})
  \/ \E i \in Sessions : DecodeDone(i)
  \/ \E i \in Sessions : Tick(i)
  \/ \E i \in Sessions : OnClose(i, {NoFault})
  \/ StopClick({NoFault})

SpecLive == Init /\ [][NextLive]_vars

\* Transcripts: a session that receives transcript texts and turn
\* completions, in events with and without audio.
NextTranscript ==
  \/ StartSession
  \/ \E i \in Sessions : GetUserMediaResolved(i)
  \/ \E i \in Sessions : ConnectResolved(i)
  \/ \E i \in Sessions : OnOpen(i)
  \/ \E i \in Sessions : OnMessage(i, TranscriptMessages)
  \/ \E i \in Sessions : DecodeDone(i)
  \/ \E x \in SourceIds : SourceEnded(x)

SpecTranscript == Init /\ [][NextTranscript]_vars

\* Capture: sessions that open, capture audio and video frames, and are
\* stopped or closed and started again.
NextCapture ==
  \/ StartSession
  \/ \E i \in Sessions : GetUserMediaResolved(i)
  \/ \E i \in Sessions : ConnectResolved(i)
  \/ \E i \in Sessions : OnOpen(i)
  \/ \E i \in Sessions : AudioProcess(i)
  \/ \E i \in Sessions : VideoTick(i)
  \/ \E i \in Sessions : BlobReady(i)
  \/ \E i \in Sessions : ReadDone(i)
  \/ \E i \in Sessions : OnClose(i, {NoFault})
  \/ StopClick({NoFault})

SpecCapture == Init /\ [][NextCapture]_vars

\* A sample of a captured buffer sent as PCM16 and decoded as received audio.
NextPcm ==
  \/ EncodeSample
  \/ DecodeSample

SpecPcm == InitPcm /\ [][NextPcm]_vars

\* Events of several parts: a first session whose events carry tool calls
\* together with audio, interruptions and transcripts, and its teardown.
NextBatch ==
  \/ StartSession
  \/ GetUserMediaResolved(1)
  \/ ConnectResolved(1)
  \/ OnOpen(1)
  \/ OnMessage(1, BatchMessages)
  \/ DecodeDone(1)
  \/ StopClick({NoFault})

SpecBatch == Init /\ [][NextBatch]_vars

\* The set of pending sources: a first session that receives audio and
\* interruptions, whose sources play to their end, and that is stopped.
\* The output clock stays at 0.
NextSources ==
  \/ StartSession
  \/ GetUserMediaResolved(1)
  \/ ConnectResolved(1)
  \/ OnOpen(1)
  \/ OnMessage(1, {m \in PlainMessages \cup AudioMessages :
                     m.audio \/ m.interrupted})
  \/ DecodeDone(1)
  \/ \E x \in SourceIds : SourceEnded(x)
  \/ StopClick({NoFault})

\* A source that has been started plays to its end unless it is stopped: the
\* output audio context is never suspended or closed.
SpecSources ==
  /\ Init
  /\ [][NextSources]_vars
  /\ \A x \in SourceIds : WF_vars(SourceEnded(x))

\* The video timers: MaxRestarts sessions that open, are stopped by the
\* button or closed by the remote side, and are started again.
NextTimer ==
  \/ StartSessionWithin(MaxRestarts)
  \/ \E i \in Sessions : GetUserMediaResolved(i)
  \/ \E i \in Sessions : ConnectResolved(i)
  \/ \E i \in Sessions : OnOpen(i)
  \/ \E i \in Sessions : OnClose(i, {NoFault})
  \/ StopClick({NoFault})

SpecTimer == Init /\ [][NextTimer]_vars

\* The memory list: a stored list, the operations on it (at most MaxOps of
\* them), and a first session whose events carry tool calls.
NextMemory ==
  \/ StartSession
  \/ GetUserMediaResolved(1)
  \/ ConnectResolved(1)
  \/ OnOpen(1)
  \/ OnMessage(1, PlainMessages \cup ToolMessages)
  \/ OnClose(1, {NoFault})
  \/ StopClick({NoFault})
  \/ \E f \in SaveFacts : SaveMemory(f)
  \/ \E k \in {1, 2, Len(memories)} : RemoveMemory(k)
  \/ ClearAll
  \/ \E f \in {"sans", "serif"} : SetFontFamily(f)

SpecMemory == InitMemory /\ [][NextMemory]_vars


(***************************************************************************)
(* The claims.                                                             *)
(***************************************************************************)
OpenTransports   == {i \in Sessions : transport[i] = "open"}
\* The handlers that are a failure of start() or of the session.
FailureHandlers  == {"getUserMediaRejected", "connectRejected", "onerror",
                     "onclose"}

\* C1: a start request issued while the controller is Connecting or Connected
\* changes nothing: no device request (no new invocation), no second
\* transport, the connection state and every session resource as before.
C1_StartIsNoOp ==
  [][(op'.name = "startSession" /\ ConnState # "Idle") => UNCHANGED progVars]_vars

\* A start request has been issued while Connected, its transport open.
C1_Witness ==
  /\ op.name = "startSession"
  /\ ConnState = "Connected"
  /\ OpenTransports # {}

\* C2: at most one transport is open at a time.
C2_AtMostOneOpen == Cardinality(OpenTransports) <= 1

\* C3: after a failure (device denial, connect rejection, transport error or
\* close) has been handled and the state is Idle, no transport is open or
\* opening and no session handle is stored.
C3_NoHalfOpenAfterFailure ==
  (op.name \in FailureHandlers /\ ConnState = "Idle")
    => /\ sessionRef = 0
       /\ \A i \in Sessions : transport[i] \notin {"opening", "open"}

\* The current state with the sources S scheduled.
WithSources(S) ==
  [Cur EXCEPT !.sourcesRef = S,
              !.sources = [x \in SourceIds |->
                             IF x \in S THEN "playing" ELSE "none"]]

\* C4: stop() called in any state, with any sources scheduled, does not
\* raise and ends Idle, whichever handler runs it, and a second call in a
\* row changes nothing.
C4_StopIdempotent ==
  /\ \A S \in SUBSET SourceIds :
       LET r == stopSession(WithSources(S), NoFault)
       IN  /\ ~r.threw
           /\ ~r.isConnected /\ ~r.isConnecting
           /\ r.sourcesRef = {}
           /\ stopSession(r, NoFault) = r
  /\ op.stops > 0 => (ConnState = "Idle" /\ ~threw)

\* Two handlers in a row have run stop(): the first while Connecting (before
\* the open callback), the second in the state the first had left.
C4_Witness ==
  /\ op.stops = 2
  /\ op.from = "Connecting"
  /\ ConnState = "Idle"
  /\ ~threw

\* C5: right after stop() the transport is closed and its handle cleared, the
\* video timer cancelled, the tracks stopped and the stream reference
\* cleared, PendingSources empty with every source stopped, and both gain
\* references released.
C5_StopReleasesAll ==
  op.stops > 0 =>
    /\ sessionRef = 0
    /\ \A i \in Sessions : transport[i] \notin {"opening", "open"}
    /\ frameIntervalRef = 0
    /\ \A i \in Sessions : timer[i] # "active"
    /\ streamRef = 0
    /\ \A i \in Sessions : stream[i] # "live"
    /\ sourcesRef = {}
    /\ \A x \in SourceIds : sources[x] # "playing"
    /\ outputGainNodeRef = 0 /\ inputGainNodeRef = 0

\* C6: the connection state changes only along Idle -> Connecting,
\* Connecting -> Connected, Connecting -> Idle and Connected -> Idle.
Edges == {<<"Idle", "Connecting">>, <<"Connecting", "Connected">>,
          <<"Connecting", "Idle">>, <<"Connected", "Idle">>}
C6_OnlyEdges ==
  [][ConnState' # ConnState => <<ConnState, ConnState'>> \in Edges]_vars

\* C7: when the handling of a transport error is over (at once, or when the
\* credential prompt has resolved or rejected), stop() has run in it, a
\* message is displayed and the state is Idle.
C7_ErrorAlwaysStops ==
  ( \/ (op.name = "onerror" /\ ~AwaitsPrompt(op.arg, TRUE))
    \/ (op.name \in {"openSelectKeyResolved", "openSelectKeyRejected"}
          /\ op.by = "onerror") )
  => /\ op.stops > 0
     /\ errorMessage # NoError
     /\ ConnState = "Idle"

\* C8 as stated: after the error callback has handled a message containing
\* "429", the quota text is displayed and the state is Idle.
C8_429IsQuota ==
  (op.name = "onerror" /\ Marker429 \in op.arg)
    => (errorMessage = QuotaText /\ ConnState = "Idle")

\* C8 amended: the same for a message containing "429" and not containing
\* "Requested entity was not found".
C8_429IsQuotaUnlessNotFound ==
  (op.name = "onerror" /\ Marker429 \in op.arg /\ NotFoundMarker \notin op.arg)
    => (errorMessage = QuotaText /\ ConnState = "Idle")

\* The error callback has handled a message containing "429" only.
C8_Witness ==
  /\ op.name = "onerror"
  /\ op.arg = {Marker429}
  /\ errorMessage = QuotaText
  /\ ConnState = "Idle"

\* C9: after getUserMedia is rejected, an error of its own class is displayed
\* (not the connectivity text), no stream is retained, no transport was
\* opened for the request, and the state is Idle.
C9_DeviceErrorOwnClass ==
  op.name = "getUserMediaRejected" =>
    /\ errorMessage \notin {NoError, ConnectionLostText}
    /\ ConnState = "Idle"
    /\ streamRef = 0

\* C10: when release calls of stop() throw, stop() still runs all the other
\* releases, does not raise and ends Idle.
C10_ReleasesIsolated ==
  op.stops > 0 =>
    /\ ~threw
    /\ ConnState = "Idle"
    /\ sessionRef = 0 /\ frameIntervalRef = 0 /\ streamRef = 0
    /\ sourcesRef = {}

\* C11: for each save_memory call of a tool-call event, the handler sends
\* exactly one response, on the session the event arrived on, in every state
\* in which the event can be delivered.
C11_OneResponsePerCall ==
  (op.name = "onmessage") =>
    \A k \in SaveCalls(op.info.calls) :
      Cardinality({r \in 1..Len(op.info.responses) :
                     /\ op.info.responses[r].id = k
                     /\ op.info.responses[r].on = op.info.on}) = 1

\* Whether q holds a fact twice.
HasDuplicates(q) == \E j, k \in 1..Len(q) : j # k /\ q[j] = q[k]
\* Whether q holds fact f.
Includes(q, f) == \E j \in 1..Len(q) : q[j] = f

\* C12: saving a fact leaves the list as it was when it already holds the
\* fact; otherwise the fact is put in front of the old entries, of which the
\* oldest is dropped when there were already 50; the save returns its string
\* acknowledgment.
C12_SavePutsInFront ==
  (op.name = "saveMemory") =>
    LET b == op.info.before
        f == op.info.fact
    IN  /\ op.info.result = "Memory saved."
        /\ Len(b) <= MemoryCap =>
             IF Includes(b, f) THEN memories = b
             ELSE IF Len(b) < MemoryCap THEN memories = <<f>> \o b
             ELSE memories = <<f>> \o SubSeq(b, 1, MemoryCap - 1)

\* A fact the list already held (not in front) has been saved again, the
\* list unchanged.
C12_Witness ==
  /\ op.name = "saveMemory"
  /\ Len(op.info.before) = MemoryCap
  /\ Includes(op.info.before, op.info.fact)
  /\ op.info.before[1] # op.info.fact
  /\ memories = op.info.before

\* C13: from an empty or a valid stored list, after any sequence of saves,
\* removals and clear-alls the list has at most 50 entries and no duplicates.
C13_CapAndNoDuplicates ==
  /\ Len(memories) <= MemoryCap
  /\ ~HasDuplicates(memories)

\* A fresh fact has been saved to a list of 50: the list still has 50.
C13_Witness ==
  /\ op.name = "saveMemory"
  /\ Len(op.info.before) = MemoryCap
  /\ ~Includes(op.info.before, op.info.fact)
  /\ Len(memories) = MemoryCap
  /\ memories[1] = op.info.fact

\* The handlers that save: handleSaveMemory itself and an onmessage whose
\* event has a save_memory call.
SavedBy(o) ==
  \/ o.name = "saveMemory"
  \/ o.name = "onmessage" /\ SaveCalls(o.info.calls) # {}

\* C14 as stated: the memory list is changed only by an explicit save or by
\* the bulk clear.
C14_OnlySaveOrClear ==
  [][memories' # memories => (SavedBy(op') \/ op'.name = "clearAll")]_vars

\* C14 amended: the memory list is changed only by an explicit save, by the
\* removal of a single entry or by the bulk clear.
C14_OnlySaveRemoveOrClear ==
  [][memories' # memories =>
       (SavedBy(op') \/ op'.name \in {"removeMemory", "clearAll"})]_vars

\* A session has been stopped after a memory operation, the list still there.
C14_Witness ==
  /\ op.name = "stopSession"
  /\ nOps > 0
  /\ Len(memories) > 0

\* The last handler scheduled a chunk (the decode completed and the source
\* was started).
Scheduled == op.info.kind = "decodeDone" /\ op.info.sched
\* The last handler ran the interruption flush.
Flushed == op.info.kind \in {"onmessage", "decodeDone"} /\ op.info.flushed

\* C15: a chunk scheduled after another with no flush in between starts no
\* earlier than the other's start plus the other's duration (so start times
\* do not decrease and chunks do not overlap), and exactly then when it was
\* enqueued no later than that end.
C15_NoOverlapNoGap ==
  (Scheduled /\ op.info.prev.has) =>
    LET end == op.info.prev.start + op.info.prev.dur
    IN  /\ op.info.start >= op.info.prev.start
        /\ op.info.start >= end
        /\ op.info.at <= end => op.info.start = end

\* A chunk enqueued before the end of the previous one has been scheduled at
\* that end.
C15_Witness ==
  /\ Scheduled /\ op.info.prev.has
  /\ op.info.at < op.info.prev.start + op.info.prev.dur
  /\ op.info.start = op.info.prev.start + op.info.prev.dur
  /\ op.info.prev.dur > 0

\* C16: the interruption flush, in whatever state it runs, leaves
\* PendingSources empty with every source of it stopped and the cursor at 0,
\* and does not raise.
C16_FlushEmptiesAndResets ==
  /\ LET r == flush(Cur)
     IN  /\ r.sourcesRef = {}
         /\ r.nextStartTimeRef = 0
         /\ ~r.threw
         /\ \A x \in sourcesRef : r.sources[x] = "none"
  /\ Flushed => (sourcesRef = {} /\ nextStartTimeRef = 0 /\ ~threw)

\* An interruption has flushed a set that held a source, the cursor being
\* ahead of 0 (another flush, of an empty set, is checked in the same states).
C16_Witness ==
  /\ op.info.kind = "onmessage" /\ op.info.flushed
  /\ op.info.had > 0
  /\ op.info.cursor > 0
  /\ sourcesRef = {} /\ nextStartTimeRef = 0

\* C17: after stop() PendingSources is empty and the cursor is 0.
C17_StopFlushesScheduler ==
  op.stops > 0 => (sourcesRef = {} /\ nextStartTimeRef = 0)

C20_DroppedSilently ==
  (op.info.kind = "frame" /\ sessionRef = 0) => (~op.info.sent /\ ~threw)

Configured == {i \in Sessions : systemInstruction[i] # <<>>}
\* The "- fact" lines of a system instruction, in order.
Bullets(q) ==
  LET F[n \in 0..Len(q)] ==
        IF n = 0 THEN <<>>
        ELSE IF q[n].kind = "bullet" THEN Append(F[n - 1], q[n].fact)
        ELSE F[n - 1]
  IN  F[Len(q)]

\* C22: the system instruction of every connect call names the response
\* language the user selected, and lists every entry of the memory list as
\* it stood at the start() call, one bullet each.
C22_PromptHasLanguageAndMemories ==
  \A i \in Configured :
    /\ \E j \in 1..Len(systemInstruction[i]) :
         systemInstruction[i][j].kind = "language"
    /\ Bullets(systemInstruction[i]) = startMemories[i]

\* C23: a float sample in [-1, 1] converted to PCM16 as onaudioprocess does
\* and back to a float as decodeAudioData does differs from the sample by at
\* most one quantization step, 1/32768.
C23_RoundTripWithinOneStep ==
  pcm.stage = "float" => Abs(pcm.float - pcm.sample) <= SubSteps

\* C24: decoding an audio chunk whose byte length is not a whole number of
\* 16-bit frames raises nothing, and the handling of its event runs on.
C24_TruncatedDecodeTolerated ==
  (op.info.kind = "decodeDone" /\ op.info.truncated) => ~threw

\* The decode that completed belongs to a session that was torn down, or
\* another session is the current one.
StaleDecode ==
  /\ op.info.kind = "decodeDone"
  /\ ~op.info.open \/ op.info.current \notin {0, op.info.on}

\* C25: a decode that completes after stop() ran, or when its session is no
\* longer the active one, schedules no source, adds nothing to sourcesRef,
\* leaves the cursor alone and raises no error.
C25_StaleDecodeActsOnNothing ==
  StaleDecode =>
    /\ ~op.info.sched
    /\ sourcesRef = op.info.members
    /\ nextStartTimeRef = op.info.cursor
    /\ ~threw

\* C26: within one event, the response to a save_memory call is sent right
\* after the save of that call: before any later call of the event and
\* before its audio is enqueued, its interruption flushes or its transcripts
\* are updated. A save that nothing follows ended the handler.
C26_ResponseRightAfterSave ==
  op.info.kind = "onmessage" =>
    LET log == op.info.log
    IN  \A p \in 1..Len(log) :
          /\ log[p].what = "save" =>
                IF p = Len(log) THEN threw
                ELSE log[p + 1] = [what |-> "respond", call |-> log[p].call]
          /\ log[p].what = "respond" =>
                /\ p > 1
                /\ log[p - 1] = [what |-> "save", call |-> log[p].call]
          /\ \A q \in 1..(p - 1) :
                log[q].what \notin {"save", "respond"} =>
                  log[p].what \notin {"save", "respond"}

\* An event of two save_memory calls, both answered, whose audio was
\* enqueued or whose interruption flushed afterwards.
C26_Witness ==
  /\ op.info.kind = "onmessage"
  /\ Len(op.info.log) >= 5
  /\ op.info.log[1] = [what |-> "save", call |-> 1]
  /\ op.info.log[2] = [what |-> "respond", call |-> 1]
  /\ op.info.log[3] = [what |-> "save", call |-> 2]
  /\ op.info.log[4] = [what |-> "respond", call |-> 2]
  /\ op.info.log[5].what \in {"enqueue", "flush"}
  /\ Len(memories) = 2

\* The cursor goes down only in a step that flushes, and then to 0.
CursorDownOnlyByFlush ==
  nextStartTimeRef' < nextStartTimeRef => (Flushed' /\ nextStartTimeRef' = 0)

AddedAndRemovedOnce ==
  \A x \in SourceIds :
    /\ (x \notin sourcesRef /\ x \in sourcesRef') =>
          (Scheduled' /\ sources[x] = "none" /\ sources'[x] = "playing")
    /\ (x \in sourcesRef /\ x \notin sourcesRef') =>
          /\ sources'[x] = "none"
          /\ op'.name = "ended" \/ Flushed' \/ op'.stops > 0

\* C28: every source added to sourcesRef is removed from it once, when it
\* ends or when an interruption or a teardown stops it; the members of the
\* set are the sources that are started and have neither ended nor been
\* stopped.
C28_SourcesRemovedOnce ==
  /\ [](sourcesRef = {x \in SourceIds : sources[x] = "playing"})
  /\ [][AddedAndRemovedOnce]_vars
  /\ \A x \in SourceIds : (x \in sourcesRef) ~> (x \notin sourcesRef)

\* A source of the set has ended and left it while another stayed in it.
C28_Witness ==
  /\ op.name = "ended"
  /\ sourcesRef # {}
  /\ \E x \in SourceIds : sources[x] = "none"

\* The sessions started after session i. startSession returns at once while
\* a session is connecting or connected, so that they were started after
\* stopSession had run on session i.
Later(i) == {j \in Sessions : j > i /\ pc[j] # "none"}

\* A step of the open, error or close callback of session i.
Callback(i) == OnOpen(i) \/ OnError(i, {NoFault}) \/ OnClose(i, {NoFault})

StaleCallbackHarmless ==
  \A i \in Sessions : \A j \in Later(i) :
    Callback(i) =>
      /\ UNCHANGED <<isConnected, isConnecting, sourcesRef>>
      /\ transport'[j] = transport[j]
      /\ stream'[j] = stream[j]
      /\ timer'[j] = timer[j]

\* C29: an open, error or close callback of a session that was torn down
\* changes nothing of a session started afterwards: not the connection
\* state, not its transport, its media tracks, its video timer nor the
\* pending sources.
C29_StaleCallbacksHarmless == [][StaleCallbackHarmless]_vars

\* C30: the capture pipeline of a session (its audio-process callback and
\* its video snapshots) sends no frame on the transport of a session started
\* after it.
C30_NoFrameOnLaterSession ==
  (op.info.kind = "frame" /\ op.info.sent) => op.info.on <= op.info.pipeline

\* The video timers that are set and not cleared.
ActiveTimers == {i \in Sessions : timer[i] = "active"}

\* C31: at most one video timer is active at any time, none is active while
\* the state is Idle, and no timer is active after a teardown.
C31_OneTimerNoneWhenIdle ==
  /\ Cardinality(ActiveTimers) <= 1
  /\ ConnState = "Idle" => ActiveTimers = {}
  /\ (op.stops > 0 /\ ~threw) => ActiveTimers = {}

\* C32: provided the permission request and the transport negotiation each
\* succeed or fail in the end, a controller that is Connecting is Connected
\* or Idle later on: it never stays Connecting forever.
C32_ConnectingEnds ==
  (ConnState = "Connecting") ~> (ConnState # "Connecting")

====
